---- MODULE Spec2Model ----
(***************************************************************************)
(* Model of integrations/sublime/MurmurAI.py: five window commands of a    *)
(* Sublime Text plugin.  Four of them run the external "mur" executable on *)
(* a background thread and marshal every panel / status-bar update back to *)
(* the UI thread with sublime.set_timeout; the fifth opens a settings file.*)
(*                                                                         *)
(* Text is modelled as a sequence of tokens (words, " " and "\n"), so that *)
(* joining, concatenating and stripping are computed, not assumed.         *)
(* Python's None is the empty set and a present value v is {v}.            *)
(***************************************************************************)
EXTENDS Integers, Sequences, FiniteSets, TLC

\* ------------------------------------------------------------------ bounds
\* Commands the user issues in one run (mur-backed and settings together).
MaxCommands == 2

\* ------------------------------------------------------------- Python data
None == {}
Some(v) == {v}
TheVal(o) == CHOOSE v \in o : TRUE

Whitespace == {" ", "\n", "\t"}

\* ' '.join(args)
RECURSIVE Join(_, _)
Join(sep, words) ==
    IF words = <<>> THEN <<>>
    ELSE IF Len(words) = 1 THEN <<words[1]>>
    ELSE <<words[1], sep>> \o Join(sep, Tail(words))

\* bool(s.strip()): some character of s is not whitespace
StripNonEmpty(s) == \E k \in 1..Len(s) : s[k] \notin Whitespace

\* t occurs in s as a contiguous run
Contains(s, t) ==
    \E k \in 0..(Len(s) - Len(t)) : SubSeq(s, k + 1, k + Len(t)) = t

\* t occurs in s, and after it u occurs
ContainsThen(s, t, u) ==
    \E k \in 0..(Len(s) - Len(t)) :
        /\ SubSeq(s, k + 1, k + Len(t)) = t
        /\ Contains(SubSeq(s, k + Len(t) + 1, Len(s)), u)

\* os.path.dirname of an absolute path given as its components
dirname(path) == SubSeq(path, 1, Len(path) - 1)

\* ---------------------------------------------------------- the environment
FileA == <<"a", "b", "file.txt">>

\* The views a window can have active: an unsaved buffer and a saved file.
Views == { [file_name |-> None], [file_name |-> Some(FileA)] }

\* window.active_view(): None when the window has no view.
ActiveViews == {None} \cup { Some(v) : v \in Views }

\* What a finished subprocess can report (returncode, stdout, stderr).
Results ==
    { [returncode |-> 0, stdout |-> <<"ok">>, stderr |-> <<>>],
      [returncode |-> 1, stdout |-> <<>>,     stderr |-> <<"bad">>] }

\* str(e) of an exception other than FileNotFoundError
ErrorMessages == { <<"Permission denied">> }

\* What a stream of a terminated process can hold: nothing, whitespace only,
\* or text
Streams == { <<>>, <<" ">>, <<"text">> }

\* Every CompletedProcess over those streams, with exit code 0 or 1
OutputResults == [returncode : {0, 1}, stdout : Streams, stderr : Streams]

\* -------------------------------------------------------- the plugin's text
SettingsFile == <<"${packages}", "MurmurAI", "MurmurAI.sublime-settings">>

SyncArgs     == <<"sync", "all">>
LearnArgs    == <<"learn", "extract", "--auto">>
StatsArgs    == <<"stats">>
PatternsArgs == <<"patterns", "list">>

\* Mutant of EchoText: the arguments are concatenated, not joined by spaces.
EchoText_Unjoined(args) == <<"$", " ", "mur", " ">> \o args \o <<"\n">>

\* f"$ mur {' '.join(args)}\n"
EchoText(args) == <<"$", " ", "mur", " ">> \o Join(" ", args) \o <<"\n">>

\* ["mur"] + args
Argv(args) == <<"mur">> \o args

RunningStatus(status_msg)  == <<"Murmur:", " ", status_msg, "...">>
CompleteStatus(status_msg) == <<"Murmur:", " ", status_msg, " ", "complete">>
FailedStatus(status_msg)   == <<"Murmur:", " ", status_msg, " ", "failed">>
NotFoundStatus == <<"Murmur:", " ", "CLI", " ", "not found">>
ErrorStatus    == <<"Murmur:", " ", "Error", " ", "occurred">>

error_msg ==
    <<"Error:", " ", "'mur' command", " ", "not found", ".", "\n",
      "Please install murmur-ai CLI and ensure it's in your PATH.", "\n",
      "See: https://github.com/anthropics/murmur-ai">>

\* f"Error: {str(e)}"
ErrorText(msg) == <<"Error:", " ">> \o msg

\* Mutant of CombinedOutput: stderr is put before stdout.
CombinedOutput_Swapped(result) ==
    IF result.stderr # <<>>
    THEN result.stderr \o <<"\n">> \o result.stdout
    ELSE result.stdout

\* output = result.stdout; if result.stderr: output += "\n" + result.stderr
CombinedOutput(result) ==
    IF result.stderr # <<>>
    THEN result.stdout \o <<"\n">> \o result.stderr
    ELSE result.stdout

\* ------------------------------------------------------------------- state
VARIABLES
    activeView,   \* window.active_view()
    panel,        \* the "murmur" output panel: None until created
    panelShown,   \* the panel has been shown with show_panel
    status,       \* text of the status bar
    queue,        \* callbacks posted with sublime.set_timeout(..., 0)
    openReqs,     \* files requested through window.run_command("open_file")
    invs,         \* one record per run_mur_command call: its thread's state
    obs,          \* one record per run_mur_command call: what was observed
    nThreads,     \* threading.Thread objects started
    nCreated,     \* calls of window.create_output_panel
    hostErrors    \* exceptions that escaped a thread or a callback

vars == <<activeView, panel, panelShown, status, queue, openReqs, invs, obs,
          nThreads, nCreated, hostErrors>>

\* The run_mur_command calls made so far, in the order they were made
Invoked == 1..Len(invs)

PanelSettings == [word_wrap |-> TRUE, line_numbers |-> FALSE, gutter |-> FALSE]

\* Callbacks of invocation i still waiting in the main-thread queue
Pending(i) == { k \in 1..Len(queue) : queue[k].inv = i }

\* The thread of invocation i has returned and all its callbacks have run
Finished(i) == invs[i].pc = "done" /\ Pending(i) = {}

Init ==
    /\ activeView \in ActiveViews
    /\ panel = None
    /\ panelShown = FALSE
    /\ status = <<>>
    /\ queue = <<>>
    /\ openReqs = <<>>
    /\ invs = <<>>
    /\ obs = <<>>
    /\ nThreads = 0
    /\ nCreated = 0
    /\ hostErrors = {}

\* --------------------------------------------------------- panel operations
\* get_output_panel: find the panel, create it when missing, set its settings
get_output_panel(p) ==
    IF p = None
    THEN [text |-> <<>>, settings |-> PanelSettings]
    ELSE [TheVal(p) EXCEPT !.settings = PanelSettings]

\* show_output: append content + "\n" (show_panel is the caller's panelShown')
show_output(p, content) ==
    LET pn == get_output_panel(p)
    IN  [pn EXCEPT !.text = pn.text \o content \o <<"\n">>]

\* Mutant of clear_output: the panel is fetched but its text is not deleted.
clear_output_Kept(p) == get_output_panel(p)

\* clear_output: select_all, right_delete
clear_output(p) ==
    LET pn == get_output_panel(p)
    IN  [pn EXCEPT !.text = <<>>]

PanelText == IF panel = None THEN <<>> ELSE TheVal(panel).text

\* Mutant of set_timeout: the newest callback is run first.
set_timeout_Lifo(q, i, kind) == <<[inv |-> i, kind |-> kind]>> \o q

\* sublime.set_timeout(cb, 0): append to the main-thread queue
set_timeout(q, i, kind) == Append(q, [inv |-> i, kind |-> kind])

\* ------------------------------------------------------- commands (UI thread)
\* run_mur_command: set the "running" status, start the thread
run_mur_command(args, status_msg, clear) ==
    /\ Len(invs) + Len(openReqs) < MaxCommands
    /\ status' = RunningStatus(status_msg)
    /\ invs' = Append(invs, [args |-> args, status_msg |-> status_msg,
                             clear |-> clear, pc |-> "clear",
                             cwd |-> None, result |-> None,
                             output |-> <<>>, e |-> None])
    /\ obs' = Append([j \in Invoked |->
                        IF Finished(j) THEN obs[j]
                        ELSE [obs[j] EXCEPT !.overlapped = TRUE]],
                     [viewAtInvoke |-> activeView,
                      textAtInvoke |-> PanelText,
                      overlapped |-> \E j \in Invoked : ~Finished(j),
                      outcome |-> "none",
                      raised |-> None,
                      spawns |-> <<>>,
                      appended |-> <<>>,
                      shown |-> <<RunningStatus(status_msg)>>,
                      ran |-> <<>>])
    /\ nThreads' = nThreads + 1
    /\ UNCHANGED <<activeView, panel, panelShown, queue, openReqs, nCreated,
                   hostErrors>>

MurmurSyncCommand == run_mur_command(SyncArgs, "Syncing", TRUE)

MurmurLearnExtractCommand ==
    run_mur_command(LearnArgs, "Extracting learnings", TRUE)

MurmurStatsCommand == run_mur_command(StatsArgs, "Loading stats", TRUE)

MurmurPatternsCommand ==
    run_mur_command(PatternsArgs, "Loading patterns", TRUE)

\* Mutant of MurmurOpenSettingsCommand: it also announces itself in the
\* status bar, as the mur-backed commands do.
MurmurOpenSettingsCommand_Announced ==
    /\ Len(invs) + Len(openReqs) < MaxCommands
    /\ openReqs' = Append(openReqs, SettingsFile)
    /\ status' = RunningStatus("Opening settings")
    /\ UNCHANGED <<activeView, panel, panelShown, queue, invs, obs,
                   nThreads, nCreated, hostErrors>>

\* MurmurOpenSettingsCommand.run: window.run_command("open_file", ...)
MurmurOpenSettingsCommand ==
    /\ Len(invs) + Len(openReqs) < MaxCommands
    /\ openReqs' = Append(openReqs, SettingsFile)
    /\ UNCHANGED <<activeView, panel, panelShown, status, queue, invs, obs,
                   nThreads, nCreated, hostErrors>>

\* The user activates another view (or closes the last one).
SwitchView ==
    /\ \E v \in ActiveViews : v # activeView /\ activeView' = v
    /\ UNCHANGED <<panel, panelShown, status, queue, openReqs, invs, obs,
                   nThreads, nCreated, hostErrors>>

\* --------------------------------------------- run(): the background thread
\* One action per step of run() that touches state shared with the UI thread
\* or with other threads (the main-thread queue, the active view, the cell
\* of e).  A step that touches only the thread's own locals is taken together
\* with the shared step that follows it.  pc is the next step to take:
\*   clear -> echo -> spawn -> wait -> final -> done            (returns)
\*                             wait -> nf_status -> done        (not found)
\*                             wait -> err_status -> err_exit -> done (error)
\* A subprocess that never terminates leaves its thread at "wait".
\* The thread of invocation i moves to pc, its locals changed by the caller.
\* Mutant of AtPc: run() holds a lock, so a thread proceeds only when the
\* threads of all earlier invocations have returned.
AtPc_Locked(i, pc) ==
    /\ i \in Invoked /\ invs[i].pc = pc
    /\ \A j \in 1..(i - 1) : invs[j].pc = "done"

AtPc(i, pc) == i \in Invoked /\ invs[i].pc = pc

ThreadFrame == UNCHANGED <<activeView, panel, panelShown, status, openReqs,
                           nThreads, nCreated, hostErrors>>

\* if clear: sublime.set_timeout(lambda: clear_output(window), 0)
RunPostClear(i) ==
    /\ AtPc(i, "clear")
    /\ queue' = IF invs[i].clear THEN set_timeout(queue, i, "clear") ELSE queue
    /\ invs' = [invs EXCEPT ![i].pc = "echo"]
    /\ UNCHANGED obs
    /\ ThreadFrame

\* Mutant of RunPostEcho: the thread calls show_output itself instead of
\* posting it to the main-thread queue.
RunPostEcho_Direct(i) ==
    /\ AtPc(i, "echo")
    /\ panel' = Some(show_output(panel, EchoText(invs[i].args)))
    /\ panelShown' = TRUE
    /\ nCreated' = nCreated + (IF panel = None THEN 1 ELSE 0)
    /\ invs' = [invs EXCEPT ![i].pc = "spawn"]
    /\ obs' = [obs EXCEPT ![i].appended =
                 Append(@, EchoText(invs[i].args) \o <<"\n">>)]
    /\ UNCHANGED <<activeView, status, queue, openReqs, nThreads, hostErrors>>

\* sublime.set_timeout(lambda: show_output(window, f"$ mur ...\n"), 0)
RunPostEcho(i) ==
    /\ AtPc(i, "echo")
    /\ queue' = set_timeout(queue, i, "echo")
    /\ invs' = [invs EXCEPT ![i].pc = "spawn"]
    /\ UNCHANGED obs
    /\ ThreadFrame

\* view = window.active_view(); cwd = dirname(view.file_name()) or None
CwdOf(view) ==
    IF view # None /\ TheVal(view).file_name # None
    THEN Some(dirname(TheVal(TheVal(view).file_name)))
    ELSE None

\* cwd is read from the view that is active now, then subprocess.run(
\* ["mur"] + args, capture_output=True, text=True, cwd=cwd) is entered:
\* one spawn attempt, with the argument vector and the cwd it is given.
RunSpawn(i) ==
    /\ AtPc(i, "spawn")
    /\ LET cwd == CwdOf(activeView)
       IN  /\ invs' = [invs EXCEPT ![i].pc = "wait", ![i].cwd = cwd]
           /\ obs' = [obs EXCEPT ![i].spawns =
                        Append(@, [argv |-> Argv(invs[i].args), cwd |-> cwd])]
    /\ UNCHANGED queue
    /\ ThreadFrame

\* subprocess.run returns a CompletedProcess; output = stdout (+ "\n" +
\* stderr); if output.strip(): post show_output(window, output)
SubprocessReturns(i) ==
    /\ AtPc(i, "wait")
    /\ \E r \in Results :
         LET out == CombinedOutput(r)
         IN  /\ invs' = [invs EXCEPT ![i].pc = "final", ![i].result = Some(r),
                                     ![i].output = out]
             /\ obs' = [obs EXCEPT ![i].outcome =
                          IF r.returncode = 0 THEN "exit0" ELSE "exitN"]
             /\ queue' = IF StripNonEmpty(out)
                         THEN set_timeout(queue, i, "output") ELSE queue
    /\ ThreadFrame

\* subprocess.run returns any CompletedProcess of OutputResults, handled as in
\* SubprocessReturns
SubprocessReturnsAny(i) ==
    /\ AtPc(i, "wait")
    /\ \E r \in OutputResults :
         LET out == CombinedOutput(r)
         IN  /\ invs' = [invs EXCEPT ![i].pc = "final", ![i].result = Some(r),
                                     ![i].output = out]
             /\ obs' = [obs EXCEPT ![i].outcome =
                          IF r.returncode = 0 THEN "exit0" ELSE "exitN"]
             /\ queue' = IF StripNonEmpty(out)
                         THEN set_timeout(queue, i, "output") ELSE queue
    /\ ThreadFrame

\* subprocess.run raises FileNotFoundError because the executable "mur" does
\* not exist: post show_output(window, error_msg)
SubprocessNotFound(i) ==
    /\ AtPc(i, "wait")
    /\ invs' = [invs EXCEPT ![i].pc = "nf_status"]
    /\ obs' = [obs EXCEPT ![i].outcome = "notfound"]
    /\ queue' = set_timeout(queue, i, "notfound_text")
    /\ ThreadFrame

\* subprocess.run raises FileNotFoundError because the directory cwd does not
\* exist (the file of the view was never saved there, or its directory was
\* removed); "except FileNotFoundError" handles it like a missing executable.
SubprocessCwdMissing(i) ==
    /\ AtPc(i, "wait")
    /\ invs[i].cwd # None
    /\ invs' = [invs EXCEPT ![i].pc = "nf_status"]
    /\ obs' = [obs EXCEPT ![i].outcome = "nocwd"]
    /\ queue' = set_timeout(queue, i, "notfound_text")
    /\ ThreadFrame

\* Mutant of SubprocessRaises: the failed spawn is tried again.
SubprocessRaises_Retried(i) ==
    /\ AtPc(i, "wait")
    /\ invs' = [invs EXCEPT ![i].pc = "spawn"]
    /\ UNCHANGED <<queue, obs>>
    /\ ThreadFrame

\* subprocess.run raises another Exception, bound to e by "except Exception
\* as e": post lambda: show_output(window, f"Error: {str(e)}")
SubprocessRaises(i) ==
    /\ AtPc(i, "wait")
    /\ \E m \in ErrorMessages :
         /\ invs' = [invs EXCEPT ![i].pc = "err_status", ![i].e = Some(m)]
         /\ obs' = [obs EXCEPT ![i].outcome = "error", ![i].raised = Some(m)]
    /\ queue' = set_timeout(queue, i, "error_text")
    /\ ThreadFrame

\* Mutant of RunPostFinal: the return code is not looked at.
RunPostFinal_AlwaysComplete(i) ==
    /\ AtPc(i, "final")
    /\ queue' = set_timeout(queue, i, "complete")
    /\ invs' = [invs EXCEPT ![i].pc = "done"]
    /\ UNCHANGED obs
    /\ ThreadFrame

\* if result.returncode == 0: post "... complete" else: post "... failed"
RunPostFinal(i) ==
    /\ AtPc(i, "final")
    /\ queue' = IF TheVal(invs[i].result).returncode = 0
                THEN set_timeout(queue, i, "complete")
                ELSE set_timeout(queue, i, "failed")
    /\ invs' = [invs EXCEPT ![i].pc = "done"]
    /\ UNCHANGED obs
    /\ ThreadFrame

\* Mutant of RunPostNotFoundStatus: the handler reports an ordinary failure.
RunPostNotFoundStatus_AsFailure(i) ==
    /\ AtPc(i, "nf_status")
    /\ queue' = set_timeout(queue, i, "failed")
    /\ invs' = [invs EXCEPT ![i].pc = "done"]
    /\ UNCHANGED obs
    /\ ThreadFrame

\* then post status_message("Murmur: CLI not found")
RunPostNotFoundStatus(i) ==
    /\ AtPc(i, "nf_status")
    /\ queue' = set_timeout(queue, i, "notfound_status")
    /\ invs' = [invs EXCEPT ![i].pc = "done"]
    /\ UNCHANGED obs
    /\ ThreadFrame

\* then post status_message("Murmur: Error occurred")
RunPostErrorStatus(i) ==
    /\ AtPc(i, "err_status")
    /\ queue' = set_timeout(queue, i, "error_status")
    /\ invs' = [invs EXCEPT ![i].pc = "err_exit"]
    /\ UNCHANGED obs
    /\ ThreadFrame

\* Leaving the except clause unbinds e (Python 3: "del e" at its end); the
\* posted lambda still refers to e through the closure.
RunLeaveExcept(i) ==
    /\ AtPc(i, "err_exit")
    /\ invs' = [invs EXCEPT ![i].pc = "done", ![i].e = None]
    /\ UNCHANGED <<queue, obs>>
    /\ ThreadFrame

\* ------------------------------------------- callbacks run by the UI thread
\* Mutant of HeadIs: the UI thread waits for running subprocesses (as with
\* thread.join() or subprocess.run on the UI thread) before its next callback.
HeadIs_Joined(kinds) ==
    /\ queue # <<>> /\ Head(queue).kind \in kinds
    /\ \A i \in Invoked : invs[i].pc # "wait"

\* The callback at the head of the main-thread queue is of one of the kinds
HeadIs(kinds) == queue # <<>> /\ Head(queue).kind \in kinds

CallbackFrame == UNCHANGED <<activeView, openReqs, invs, nThreads>>

\* Mutant of Created: the panel is created without looking for it first.
Created_Unsought(p) == 1

\* window.create_output_panel is called only when find_output_panel found none
Created(p) == IF p = None THEN 1 ELSE 0

\* lambda: clear_output(window)
CallbackClear ==
    /\ HeadIs({"clear"})
    /\ panel' = Some(clear_output(panel))
    /\ nCreated' = nCreated + Created(panel)
    /\ obs' = [obs EXCEPT ![Head(queue).inv].ran = Append(@, "clear")]
    /\ queue' = Tail(queue)
    /\ UNCHANGED <<panelShown, status, hostErrors>>
    /\ CallbackFrame

\* The content the show_output lambdas of lines 48, 70 and 87 pass
ShowContent(cb) ==
    CASE cb.kind = "echo"          -> EchoText(invs[cb.inv].args)
      [] cb.kind = "output"        -> invs[cb.inv].output
      [] cb.kind = "notfound_text" -> error_msg

\* lambda: show_output(window, <content>)
CallbackShow ==
    /\ HeadIs({"echo", "output", "notfound_text"})
    /\ LET cb == Head(queue)
       IN  /\ panel' = Some(show_output(panel, ShowContent(cb)))
           /\ obs' = [obs EXCEPT ![cb.inv].appended =
                                   Append(@, ShowContent(cb) \o <<"\n">>),
                                 ![cb.inv].ran = Append(@, cb.kind)]
    /\ panelShown' = TRUE
    /\ nCreated' = nCreated + Created(panel)
    /\ queue' = Tail(queue)
    /\ UNCHANGED <<status, hostErrors>>
    /\ CallbackFrame

\* lambda: show_output(window, f"Error: {str(e)}"), e read when it runs:
\* a NameError escapes the callback when e is no longer bound.
CallbackErrorText ==
    /\ HeadIs({"error_text"})
    /\ LET cb == Head(queue)
           e  == invs[cb.inv].e
       IN  IF e = None
           THEN /\ hostErrors' = hostErrors \cup
                                 {[inv |-> cb.inv, exc |-> "NameError"]}
                /\ obs' = [obs EXCEPT ![cb.inv].ran = Append(@, cb.kind)]
                /\ UNCHANGED <<panel, panelShown, nCreated>>
           ELSE /\ panel' = Some(show_output(panel, ErrorText(TheVal(e))))
                /\ obs' = [obs EXCEPT ![cb.inv].appended =
                                        Append(@, ErrorText(TheVal(e)) \o <<"\n">>),
                                      ![cb.inv].ran = Append(@, cb.kind)]
                /\ panelShown' = TRUE
                /\ nCreated' = nCreated + Created(panel)
                /\ UNCHANGED hostErrors
    /\ queue' = Tail(queue)
    /\ UNCHANGED status
    /\ CallbackFrame

\* The message the status_message lambdas of lines 74, 78, 89 and 96 show
StatusContent(cb) ==
    CASE cb.kind = "complete"        -> CompleteStatus(invs[cb.inv].status_msg)
      [] cb.kind = "failed"          -> FailedStatus(invs[cb.inv].status_msg)
      [] cb.kind = "notfound_status" -> NotFoundStatus
      [] cb.kind = "error_status"    -> ErrorStatus

\* lambda: sublime.status_message(<message>)
CallbackStatus ==
    /\ HeadIs({"complete", "failed", "notfound_status", "error_status"})
    /\ LET cb == Head(queue)
       IN  /\ status' = StatusContent(cb)
           /\ obs' = [obs EXCEPT ![cb.inv].shown = Append(@, StatusContent(cb)),
                                 ![cb.inv].ran = Append(@, cb.kind)]
    /\ queue' = Tail(queue)
    /\ UNCHANGED <<panel, panelShown, nCreated, hostErrors>>
    /\ CallbackFrame

\* ------------------------------------------------------------ specification
Thread(i) ==
    \/ RunPostClear(i)
    \/ RunPostEcho(i)
    \/ RunSpawn(i)
    \/ SubprocessReturns(i)
    \/ SubprocessNotFound(i)
    \/ SubprocessCwdMissing(i)
    \/ SubprocessRaises(i)
    \/ RunPostFinal(i)
    \/ RunPostNotFoundStatus(i)
    \/ RunPostErrorStatus(i)
    \/ RunLeaveExcept(i)

\* The program's own steps: the threads and the UI thread's queue
Program ==
    \/ \E i \in Invoked : Thread(i)
    \/ CallbackClear
    \/ CallbackShow
    \/ CallbackErrorText
    \/ CallbackStatus

\* The user issues commands at any time, also while earlier ones still run;
\* the active view stays the one the window started with.
Next ==
    \/ MurmurSyncCommand
    \/ MurmurLearnExtractCommand
    \/ MurmurStatsCommand
    \/ MurmurPatternsCommand
    \/ MurmurOpenSettingsCommand
    \/ Program

Spec == Init /\ [][Next]_vars

\* No invocation is in progress
Idle == \A i \in Invoked : Finished(i)

\* The user issues a command only when the previous one has finished, and
\* moves between views at any time.
NextSolo ==
    \/ Idle /\ MurmurSyncCommand
    \/ Idle /\ MurmurLearnExtractCommand
    \/ Idle /\ MurmurStatsCommand
    \/ Idle /\ MurmurPatternsCommand
    \/ MurmurOpenSettingsCommand
    \/ SwitchView
    \/ Program

SpecSolo == Init /\ [][NextSolo]_vars

\* Steps a thread takes by itself once it is scheduled; the return of
\* subprocess.run is not among them: it waits for the external process.
ThreadRuns(i) ==
    \/ RunPostClear(i)
    \/ RunPostEcho(i)
    \/ RunSpawn(i)
    \/ RunPostFinal(i)
    \/ RunPostNotFoundStatus(i)
    \/ RunPostErrorStatus(i)
    \/ RunLeaveExcept(i)

\* The UI thread runs the callback at the head of its queue
UiRuns ==
    \/ CallbackClear
    \/ CallbackShow
    \/ CallbackErrorText
    \/ CallbackStatus

\* The editor's main loop keeps running queued callbacks and the operating
\* system keeps scheduling runnable threads; an external process may never
\* terminate, so no fairness is assumed of subprocess.run returning.
Fairness ==
    /\ WF_vars(UiRuns)
    /\ \A i \in 1..MaxCommands : WF_vars(ThreadRuns(i))

\* The user issues the sync and stats commands at any time, also while an
\* earlier one still runs.
NextPair ==
    \/ MurmurSyncCommand
    \/ MurmurStatsCommand
    \/ Program

SpecFair == Init /\ [][NextPair]_vars /\ Fairness

\* The steps of a thread whose subprocess terminates, with any output
ThreadOutput(i) ==
    \/ RunPostClear(i)
    \/ RunPostEcho(i)
    \/ RunSpawn(i)
    \/ SubprocessReturnsAny(i)
    \/ RunPostFinal(i)

\* The sync and stats commands, one after the other, with mur installed and
\* its process leaving any output on its two streams.
NextOutput ==
    \/ Idle /\ MurmurSyncCommand
    \/ Idle /\ MurmurStatsCommand
    \/ \E i \in Invoked : ThreadOutput(i)
    \/ CallbackClear
    \/ CallbackShow
    \/ CallbackStatus

SpecOutput == Init /\ [][NextOutput]_vars

\* ------------------------------------------------------------------ claims
Range(s) == { s[k] : k \in 1..Len(s) }
Last(s) == s[Len(s)]

RECURSIVE Flatten(_)
Flatten(ss) == IF ss = <<>> THEN <<>> ELSE Head(ss) \o Flatten(Tail(ss))

Mentions(texts, word) == \E k \in 1..Len(texts) : Contains(texts[k], <<word>>)

\* C1: when subprocess.run raises an exception other than FileNotFoundError,
\* then once the callbacks the thread posted have run, "Error: <message>"
\* has been appended to the panel and "Murmur: Error occurred" was shown.
C1_ErrorRendered ==
    \A i \in Invoked :
        (obs[i].outcome = "error" /\ Finished(i)) =>
            /\ <<"Error:", " ", "Permission denied", "\n">>
                   \in Range(obs[i].appended)
            /\ <<"Murmur:", " ", "Error", " ", "occurred">>
                   \in Range(obs[i].shown)

\* C2: whatever the outcome of the spawn, no exception escapes the background
\* thread or a callback it posted to the UI queue.
C2_NoUncaughtError == hostErrors = {}

\* The command line each command is to echo (spec section 6)
CommandLine(args) ==
    CASE args = SyncArgs     -> <<"$", " ", "mur", " ", "sync", " ", "all">>
      [] args = LearnArgs    -> <<"$", " ", "mur", " ", "learn", " ",
                                  "extract", " ", "--auto">>
      [] args = StatsArgs    -> <<"$", " ", "mur", " ", "stats">>
      [] args = PatternsArgs -> <<"$", " ", "mur", " ", "patterns", " ", "list">>

\* Invocation i is the latest one, has finished, and overlapped no other
RanAlone(i) == i = Len(invs) /\ Finished(i) /\ ~obs[i].overlapped

PrintedOk(i) ==
    invs[i].result = Some([returncode |-> 0, stdout |-> <<"ok">>, stderr |-> <<>>])

\* C3: a mur-backed command run alone whose executable exits 0 and prints
\* "ok" leaves the panel with its command line "$ mur <args>" followed by
\* "ok", and the status bar with a message containing "complete".
C3_SuccessRendered ==
    \A i \in Invoked :
        (RanAlone(i) /\ PrintedOk(i)) =>
            /\ ContainsThen(PanelText, CommandLine(invs[i].args), <<"ok">>)
            /\ Contains(status, <<"complete">>)

C3_Witness ==
    \E i \in Invoked :
        /\ RanAlone(i) /\ PrintedOk(i)
        /\ invs[i].args = LearnArgs
        /\ Len(obs[i].appended) = 2

\* C4: a non-zero exit is no exception: the captured output is appended, the
\* final status contains "failed", and neither the not-found text nor an
\* "Error:" line is written for that invocation.
C4_FailureRendered ==
    \A i \in Invoked :
        obs[i].outcome = "exitN" =>
            /\ ~Mentions(obs[i].appended, "Error:")
            /\ ~Mentions(obs[i].appended, "not found")
            /\ Finished(i) =>
                 /\ TheVal(invs[i].result).stderr = <<"bad">>
                      => Mentions(obs[i].appended, "bad")
                 /\ Contains(Last(obs[i].shown), <<"failed">>)

C4_Witness ==
    \E i \in Invoked :
        /\ obs[i].outcome = "exitN" /\ Finished(i)
        /\ TheVal(invs[i].result).stderr = <<"bad">>
        /\ Len(obs[i].appended) = 2

\* C5: when the executable is not found, the panel receives the installation
\* instructions, a status containing "not found" is shown, and no status
\* containing "complete" or "failed" is ever shown for that invocation.
C5_NotFoundRendered ==
    \A i \in Invoked :
        obs[i].outcome = "notfound" =>
            /\ ~Mentions(obs[i].shown, "complete")
            /\ ~Mentions(obs[i].shown, "failed")
            /\ Finished(i) =>
                 /\ Mentions(obs[i].appended, "'mur' command")
                 /\ Mentions(obs[i].appended,
                        "Please install murmur-ai CLI and ensure it's in your PATH.")
                 /\ Mentions(obs[i].appended,
                        "See: https://github.com/anthropics/murmur-ai")
                 /\ Mentions(obs[i].shown, "not found")

C5_Witness ==
    \E i \in Invoked :
        /\ obs[i].outcome = "notfound" /\ Finished(i)
        /\ Len(obs[i].shown) = 2

\* C6: once a thread has been started, the panel, its visibility and the
\* status bar change only in steps of the UI thread: a step that takes a
\* callback from the head of the main-thread queue, or the next command's
\* own "running" status; a step of a background thread changes none of them.
C6_UiThreadOnly ==
    [][ /\ (panel' # panel \/ panelShown' # panelShown \/ status' # status) =>
             \/ queue # <<>> /\ queue' = Tail(queue) /\ invs' = invs
             \/ /\ Len(invs') = Len(invs) + 1
                /\ panel' = panel /\ panelShown' = panelShown
        /\ (\E i \in Invoked : invs'[i] # invs[i]) =>
             (panel' = panel /\ panelShown' = panelShown /\ status' = status)
      ]_vars

C6_Witness ==
    \E i \in Invoked :
        /\ invs[i].pc = "done"
        /\ Len(obs[i].appended) = 2
        /\ Len(obs[i].shown) = 2

\* C7: after an invocation with clear=True that overlapped no other, the
\* panel holds exactly what that invocation appended (its command line and
\* its output): the text the panel had when it was invoked is gone.
C7_ClearedBeforeEcho ==
    \A i \in Invoked :
        (RanAlone(i) /\ invs[i].clear) =>
            /\ PanelText = Flatten(obs[i].appended)
            /\ SubSeq(PanelText, 1, Len(CommandLine(invs[i].args)))
                   = CommandLine(invs[i].args)

C7_Witness ==
    \E i \in Invoked :
        /\ RanAlone(i) /\ invs[i].clear
        /\ Contains(obs[i].textAtInvoke, <<"$", " ", "mur", " ", "stats">>)
        /\ invs[i].args = SyncArgs
        /\ PrintedOk(i)

\* The directory of the file of view v, None when v has no file
DirectoryOf(v) ==
    IF v = Some([file_name |-> Some(<<"a", "b", "file.txt">>)])
    THEN Some(<<"a", "b">>)
    ELSE None

\* C8: the working directory passed to the subprocess is the directory of
\* the file that was active when the command was invoked (no directory when
\* none was), also when the active view changes before the thread reads it.
C8_CwdOfInvocation ==
    \A i \in Invoked :
        \A k \in 1..Len(obs[i].spawns) :
            obs[i].spawns[k].cwd = DirectoryOf(obs[i].viewAtInvoke)

\* C9: the settings command issues one open_file request for the literal
\* settings path and changes nothing else: no thread, no subprocess, no
\* callback, and the panel and the status message stay as they are.
C9_SettingsOnly ==
    [][ openReqs' # openReqs =>
          /\ openReqs' = Append(openReqs, <<"${packages}", "MurmurAI",
                                           "MurmurAI.sublime-settings">>)
          /\ UNCHANGED <<activeView, panel, panelShown, status, queue, invs,
                         obs, nThreads, nCreated, hostErrors>>
      ]_vars

C9_Witness ==
    /\ Len(openReqs) = 1
    /\ queue # <<>>
    /\ \E i \in Invoked : invs[i].pc = "wait"

\* Spawn attempts invocation i has made by the time its thread is at pc
SpawnsDue(pc) == IF pc \in {"clear", "echo", "spawn"} THEN 0 ELSE 1

\* C10: N invocations start exactly N threads, and every invocation makes
\* exactly one spawn attempt, with its own argument vector: none retries,
\* and none waits for another invocation before it proceeds.
C10_OneThreadOneSpawn ==
    /\ nThreads = Len(invs)
    /\ \A i \in Invoked :
         /\ Len(obs[i].spawns) = SpawnsDue(invs[i].pc)
         /\ \A k \in 1..Len(obs[i].spawns) :
              obs[i].spawns[k].argv = <<"mur">> \o invs[i].args
         /\ invs[i].pc # "done" => ENABLED Thread(i)

C10_Witness ==
    /\ Len(invs) = 2
    /\ \A i \in Invoked : invs[i].pc = "done" /\ obs[i].overlapped
    /\ obs[1].outcome = "error"

\* subprocess.run of invocation i has returned or raised
Terminated(i) ==
    i \in Invoked /\ invs[i].pc \notin {"clear", "echo", "spawn", "wait"}

\* A status other than the "running" one has been shown for invocation i
FinalShown(i) == i \in Invoked /\ Len(obs[i].shown) >= 2

\* C11: while the subprocess of an invocation has not terminated, that
\* invocation has appended no output and shown no final status; the UI
\* thread is not blocked by it (a queued callback can always run), and every
\* invocation whose subprocess terminates goes on to show its final status,
\* whatever the other invocations' subprocesses do.
C11_HungDoesNotBlock ==
    /\ [](\A i \in Invoked :
            invs[i].pc = "wait" =>
                /\ Range(obs[i].ran) \subseteq {"clear", "echo"}
                /\ Len(obs[i].shown) = 1)
    /\ [](queue # <<>> => ENABLED UiRuns)
    /\ \A j \in 1..MaxCommands : Terminated(j) ~> FinalShown(j)

C11_Witness ==
    \E i, j \in Invoked :
        /\ invs[i].pc = "wait"
        /\ obs[j].textAtInvoke # <<>>
        /\ i < j
        /\ Finished(j) /\ FinalShown(j)

\* The callbacks that call get_output_panel
PanelCallbacks == {"clear", "echo", "output", "notfound_text", "error_text"}

\* C12: the "murmur" panel is created lazily and reused: create_output_panel
\* is called at most once, only by a callback that touches the panel and
\* only when there is no panel yet; once there is a panel it stays, and no
\* later panel operation creates another.
C12_PanelCreatedOnce ==
    [][ /\ nCreated' \in {0, 1}
        /\ (panel' = None) = (nCreated' = 0)
        /\ nCreated' # nCreated =>
             /\ panel = None
             /\ queue # <<>> /\ queue' = Tail(queue)
             /\ Head(queue).kind \in PanelCallbacks
        /\ panel # None => (panel' # None /\ nCreated' = nCreated)
        /\ (\A i \in Invoked : obs[i].ran = <<>>) => panel = None
      ]_vars

C12_Witness ==
    /\ nCreated = 1
    /\ Len(invs) = 2
    /\ \A i \in Invoked :
         obs[i].overlapped /\ Finished(i) /\ Len(obs[i].appended) = 2

\* The echoed command line of invocation i is in the panel and its output
\* has not been appended yet
AwaitingOutput(i) ==
    "echo" \in Range(obs[i].ran) /\ "output" \notin Range(obs[i].ran)

\* C13: overlapping invocations are not kept apart.  While one invocation is
\* between its echoed command line and its output, the thread of any other
\* invocation can still post its writes and a write of another invocation at
\* the head of the queue can still take effect; so (witness) the panel can
\* end with one invocation's output under the other's command line, its own
\* command line gone, and the two invocations' text mixed.
C13_NoMutualExclusion ==
    \A i, j \in Invoked :
        (i # j /\ AwaitingOutput(i)) =>
            /\ invs[j].pc \notin {"wait", "done"} => ENABLED ThreadRuns(j)
            /\ (queue # <<>> /\ Head(queue).inv = j) => ENABLED UiRuns

C13_Witness ==
    /\ Len(invs) = 2
    /\ Finished(1) /\ Finished(2)
    /\ invs[1].args = SyncArgs /\ invs[2].args = StatsArgs
    /\ PrintedOk(1)
    /\ obs[2].outcome = "exitN"
    /\ PanelText = <<"$", " ", "mur", " ", "stats", "\n", "\n">>
                       \o <<"ok", "\n">> \o <<"\n", "bad", "\n">>

\* The kinds of the callbacks of invocation i waiting in q, in queue order
RECURSIVE KindsIn(_, _)
KindsIn(q, i) ==
    IF q = <<>> THEN <<>>
    ELSE (IF Head(q).inv = i THEN <<Head(q).kind>> ELSE <<>>)
             \o KindsIn(Tail(q), i)

\* The callbacks invocation i has posted so far: those run, then those queued
Posted(i) == obs[i].ran \o KindsIn(queue, i)

\* The place of a callback in the order clear, echo, output, final status
Rank(kind) ==
    CASE kind = "clear" -> 1
      [] kind = "echo" -> 2
      [] kind \in {"output", "notfound_text", "error_text"} -> 3
      [] kind \in {"complete", "failed", "notfound_status", "error_status"} -> 4

Ascending(kinds) ==
    \A k \in 1..(Len(kinds) - 1) : Rank(kinds[k]) < Rank(kinds[k + 1])

\* C14: within one invocation, overlapped or not: the "running" status is
\* shown when the thread starts; the clear and the echoed command line are
\* posted before the subprocess is spawned; the UI thread runs the
\* invocation's callbacks in the order clear, echo, output, final status;
\* and the final status is not shown before the output has been appended.
C14_StepsInOrder ==
    \A i \in Invoked :
        /\ obs[i].shown[1] = <<"Murmur:", " ", invs[i].status_msg, "...">>
        /\ invs[i].pc = "clear" => (obs[i].spawns = <<>> /\ Posted(i) = <<>>)
        /\ obs[i].spawns # <<>> =>
             (Len(Posted(i)) >= 2 /\ SubSeq(Posted(i), 1, 2) = <<"clear", "echo">>)
        /\ Ascending(Posted(i))
        /\ (StripNonEmpty(invs[i].output) /\ Len(obs[i].shown) >= 2) =>
             "output" \in Range(obs[i].ran)

C14_Witness ==
    \E i \in Invoked :
        /\ obs[i].overlapped
        /\ obs[i].ran = <<"clear", "echo", "output", "failed">>
        /\ queue # <<>>

\* The final status the outcome of invocation i calls for: "CLI not found"
\* when the executable is missing, "Error occurred" for any other exception
ExpectedStatus(i) ==
    CASE obs[i].outcome = "exit0" ->
             <<"Murmur:", " ", invs[i].status_msg, " ", "complete">>
      [] obs[i].outcome = "exitN" ->
             <<"Murmur:", " ", invs[i].status_msg, " ", "failed">>
      [] obs[i].outcome = "notfound" ->
             <<"Murmur:", " ", "CLI", " ", "not found">>
      [] obs[i].outcome \in {"error", "nocwd"} ->
             <<"Murmur:", " ", "Error", " ", "occurred">>

\* C15: every invocation whose spawn attempt returned or raised shows exactly
\* one final status, the one its outcome calls for (exit 0, non-zero exit,
\* executable not found, other exception); none shows two, and once its
\* callbacks have run none is left with the "running" status only.
C15_FinalStatusByOutcome ==
    \A i \in Invoked :
        /\ Len(obs[i].shown) <= 2
        /\ Finished(i) =>
             (Len(obs[i].shown) = 2 /\ obs[i].shown[2] = ExpectedStatus(i))

\* C16: the text appended for a finished subprocess is its stdout followed by
\* its stderr (after a newline), the stderr part present only when stderr is
\* non-empty; when neither stream holds anything but whitespace no output is
\* appended at all, yet the echoed command line has shown the panel and the
\* final status is the one of the exit code.
C16_OutputAppended ==
    \A i \in Invoked :
        (Finished(i) /\ invs[i].result # None) =>
            LET r == TheVal(invs[i].result)
                n == Len(r.stdout)
                m == Len(r.stderr)
            IN  /\ obs[i].appended[1] = CommandLine(invs[i].args) \o <<"\n", "\n">>
                /\ IF StripNonEmpty(r.stdout) \/ StripNonEmpty(r.stderr)
                   THEN /\ Len(obs[i].appended) = 2
                        /\ LET text == obs[i].appended[2]
                           IN  /\ SubSeq(text, 1, n) = r.stdout
                               /\ r.stderr = <<>> => Len(text) = n + 1
                               /\ r.stderr # <<>> =>
                                    /\ text[n + 1] = "\n"
                                    /\ SubSeq(text, n + 2, n + 1 + m) = r.stderr
                                    /\ Len(text) = n + m + 2
                               /\ Last(text) = "\n"
                   ELSE /\ Len(obs[i].appended) = 1
                        /\ panelShown
                        /\ Len(obs[i].shown) = 2
                        /\ obs[i].shown[2] =
                             <<"Murmur:", " ", invs[i].status_msg, " ",
                               IF r.returncode = 0 THEN "complete" ELSE "failed">>

\* One finished process wrote text to both streams, another left only
\* whitespace on stderr and exited with a non-zero code.
C16_Witness ==
    \E i, j \in Invoked :
        /\ Finished(i) /\ Finished(j)
        /\ invs[i].result = Some([returncode |-> 0, stdout |-> <<"text">>,
                                  stderr |-> <<"text">>])
        /\ invs[j].result = Some([returncode |-> 1, stdout |-> <<>>,
                                  stderr |-> <<" ">>])
        /\ Len(obs[i].appended) = 2
        /\ Len(obs[j].appended) = 1

====
